---- MODULE Spec2Model ----
(***************************************************************************)
(* The vitals sampling-and-submission scripts of nicu_pediasense:          *)
(*   scripts/camera-connector-production.py   ("prod")                     *)
(*   scripts/camera-to-dashboard-ocr.py       ("ocr")                      *)
(*   scripts/vlm-vitals-extractor.py          ("vlm")                      *)
(*   scripts/camera-to-dashboard.py           ("mock")                     *)
(*   pi-zero-setup/scripts/central-ocr-processor.py ("central")            *)
(*                                                                         *)
(* Numbers.  Vital values are fixed-point hundredths (150 bpm is 15000,    *)
(* 36.8 C is 3680), so that int() and round(.,1) are real conversions.     *)
(* Confidences are fixed-point with 400 standing for 1.0, so that the mean *)
(* of four two-decimal confidences is exact.                               *)
(***************************************************************************)
EXTENDS Integers, Sequences, FiniteSets, TLC

VARIABLES
    variant,            \* which script this run executes
    pc,                 \* position of the script's main()
    connected,          \* stream.connected (prod) / stream_connected (ocr, vlm, mock)
    cap,                \* the capture handle: "None", "opened", "unopened", "released"
    reconnect_attempts, \* prod main() local / CameraStreamProcessor.reconnect_attempts
    frames,             \* prod: stream.frame_count > 0 (latencies non-empty)
    running,            \* central: CameraStreamProcessor.running
    history,            \* prod: VitalSmoother.history
    vital_history,      \* ocr: module-level vital_history
    smoothed,           \* result of the last VitalSmoother.smooth call
    smoothed_ocr,       \* result of the last apply_smoothing call
    pushed,             \* argument of the last smooth / apply_smoothing call
    fed,                \* smoother harness: raw heart-rate samples fed so far
    ticks,              \* loop iterations completed
    failures,           \* consecutive iterations without a frame (observer)
    failed_connects,    \* consecutive connection attempts that failed (observer)
    dropped,            \* states in which capture handles were let go (observer)
    processors,         \* central: CentralOCRProcessor.processors, one per camera
    base_values,        \* central: keys of the shared MockOCRExtractor.base_values
    published,          \* central: cameras that published through the shared client
    ocr_values,         \* prod: per kind, the values extract_vitals returned so far (observer)
    last                \* what the last loop iteration did (observer)

vars == <<variant, pc, connected, cap, reconnect_attempts, frames, running,
          history, vital_history, smoothed, smoothed_ocr, pushed, fed,
          ticks, failures, failed_connects, dropped, processors, base_values,
          published, ocr_values, last>>

----------------------------------------------------------------------------
(* Bounds of the model *)

MaxTicks == 4
MaxDeadTicks == 6
MaxIters == 8
MaxFeeds == 6

\* start() calls that launch a thread, per processor
MaxStarts == 2

\* threads of earlier start() calls followed per processor
MaxOldThreads == 1

----------------------------------------------------------------------------
(* Python values *)

\* An optional number: None, or a number x
None == [isNone |-> TRUE, val |-> 0]

Some(x) == [isNone |-> FALSE, val |-> x]

\* {} : the dict with no key
EmptyDict == [k \in {} |-> 0]

\* dict.get(k) : None when the key is absent
Get(d, k) == IF k \in DOMAIN d THEN Some(d[k]) ELSE None

\* truth value of an optional number: None and 0 are falsy
Truthy(o) == ~o.isNone /\ o.val # 0

\* int(x) on a float: truncation toward zero
PyInt(v) == IF v >= 0 THEN (v \div 100) * 100 ELSE -(((-v) \div 100) * 100)

\* round(x, 1): nearest tenth; a decimal tie goes where the binary float lies
Round1(v) ==
    LET r == v % 10
    IN  IF r = 5 THEN {v - 5, v + 5}
        ELSE IF r < 5 THEN {v - r} ELSE {v + (10 - r)}

RECURSIVE Insert(_, _)
Insert(x, s) ==
    IF s = <<>> THEN <<x>>
    ELSE IF x < Head(s) THEN <<x>> \o s
    ELSE <<Head(s)>> \o Insert(x, Tail(s))

\* sorted(iterable)
RECURSIVE sorted(_)
sorted(s) == IF s = <<>> THEN <<>> ELSE Insert(s[Len(s)], sorted(SubSeq(s, 1, Len(s) - 1)))

\* a bounded buffer that refuses the new element when full
DequeAppend_keepsOldest(d, x, maxlen) == IF Len(d) >= maxlen THEN d ELSE Append(d, x)

\* deque(maxlen=n).append(x): the oldest element is dropped on overflow
DequeAppend(d, x, maxlen) ==
    LET a == Append(d, x)
    IN  IF Len(a) > maxlen THEN SubSeq(a, Len(a) - maxlen + 1, Len(a)) ELSE a

Range(s) == {s[i] : i \in DOMAIN s}

\* sum(d[k] for k in keys)
RECURSIVE SumValues(_, _)
SumValues(d, keys) ==
    IF keys = {} THEN 0
    ELSE LET k == CHOOSE j \in keys : TRUE
         IN  d[k] + SumValues(d, keys \ {k})

----------------------------------------------------------------------------
(* camera-connector-production.py: configuration *)

Kinds == {"hr", "spo2", "rr", "temp"}

MAX_RECONNECT_ATTEMPTS == 5

VALID_RANGES ==
    [hr |-> <<8000, 20000>>, spo2 |-> <<8500, 10000>>,
     rr |-> <<2000, 8000>>, temp |-> <<3500, 3900>>]

\* InRange without the upper comparison
InRange_noUpper(value, range) == range[1] <= value

\* min_val <= value <= max_val
InRange(value, range) == range[1] <= value /\ value <= range[2]

\* FirstValid clamping the first captured number into the range instead of
\* discarding it
FirstValid_clamp(cs, range) ==
    IF cs = <<>> THEN None
    ELSE Some(IF Head(cs) < range[1] THEN range[1]
              ELSE IF Head(cs) > range[2] THEN range[2] ELSE Head(cs))

\* The loop over a kind's patterns: cs lists, in pattern order, the numbers the
\* matching patterns captured; the first one inside the range is kept (break),
\* one outside the range leaves the loop running.
RECURSIVE FirstValid(_, _)
FirstValid(cs, range) ==
    IF cs = <<>> THEN None
    ELSE IF InRange(Head(cs), range) THEN Some(Head(cs))
    ELSE FirstValid(Tail(cs), range)

\* The per-kind loop shared by extract_vitals and extract_vitals_from_text
MatchKinds(cands, ranges) ==
    LET hit == {k \in DOMAIN cands : ~FirstValid(cands[k], ranges[k]).isNone}
    IN  [k \in hit |-> FirstValid(cands[k], ranges[k]).val]

\* extract_vitals without its except clause
extract_vitals_propagates(text) ==
    IF text.raises THEN [vitals |-> EmptyDict, conf |-> 0, raised |-> TRUE]
    ELSE LET vitals == MatchKinds(text.cands, VALID_RANGES)
         IN  [vitals |-> vitals,
              conf |-> IF Cardinality(DOMAIN vitals) >= 2 THEN 352 ELSE 0,
              raised |-> FALSE]

\* extract_vitals(frame).  The frame is seen through what OCR makes of it:
\* text.raises (preprocessing or tesseract raised) and text.cands.
\* raised: an exception left the function (the except clause lets none out).
extract_vitals(text) ==
    IF text.raises THEN [vitals |-> EmptyDict, conf |-> 0, raised |-> FALSE]
    ELSE LET vitals == MatchKinds(text.cands, VALID_RANGES)
         IN  [vitals |-> vitals,
              conf |-> IF Cardinality(DOMAIN vitals) >= 2 THEN 352 ELSE 0,
              raised |-> FALSE]

\* The random draws of one simulated reading, all lowest and all highest:
\* randint(-15,15), randint(-4,3), randint(-8,8), uniform(-0.4,0.4), and the
\* uniform(0, 0.10) of the confidence that follows
SimDraws ==
    {[hr |-> -15, spo2 |-> -4, rr |-> -8, temp |-> -40, u |-> 0],
     [hr |-> 15, spo2 |-> 3, rr |-> 8, temp |-> 40, u |-> 40]}

Min(a, b) == IF a <= b THEN a ELSE b

Max(a, b) == IF a >= b THEN a ELSE b

\* generate_simulation_vitals() for the draws d and the rounding t of temp
generate_simulation_vitals(d, t) ==
    [hr |-> 14000 + d.hr * 100,
     spo2 |-> Min(10000, Max(8800, 9600 + d.spo2 * 100)),
     rr |-> 4500 + d.rr * 100,
     temp |-> t]

\* every value generate_simulation_vitals() can return for the draws d
SimVitals(d) == {generate_simulation_vitals(d, t) : t \in Round1(3680 + d.temp)}

\* connect dropping the handle (self.cap = None) when the stream does not open
connect_dropsHandle(conn, cp, openOK) ==
    [cap |-> IF openOK THEN "opened" ELSE "None",
     connected |-> IF openOK THEN TRUE ELSE conn,
     ok |-> openOK,
     old |-> IF cp = "None" THEN "None" ELSE "released"]

\* connect without "if self.cap: self.cap.release()"
connect_leaksOld(conn, cp, openOK) ==
    [cap |-> IF openOK THEN "opened" ELSE "unopened",
     connected |-> IF openOK THEN TRUE ELSE conn,
     ok |-> openOK,
     old |-> cp]

\* OptimizedStreamReader.connect() on self.cap = cp: the old handle is
\* released (old: the state it is left in), a new one is made; connected is set
\* only when the new handle is opened.
connect(conn, cp, openOK) ==
    [cap |-> IF openOK THEN "opened" ELSE "unopened",
     connected |-> IF openOK THEN TRUE ELSE conn,
     ok |-> openOK,
     old |-> IF cp = "None" THEN "None" ELSE "released"]

\* OptimizedStreamReader.release(): "if self.cap: self.cap.release()"
release(cp) == IF cp = "None" THEN "None" ELSE "released"

\* get_frame reading the handle without looking at self.connected
get_frame_skipsConnected(conn, cp, stream) ==
    IF cp = "None" THEN "raise"
    ELSE IF cp = "opened" /\ stream = "up" THEN "frame"
    ELSE "drop"

\* get_frame handing out a frame without looking at what grab returned
get_frame_ignoresRet(conn, cp, stream) ==
    IF ~conn THEN "none"
    ELSE IF cp = "None" THEN "raise"
    ELSE "frame"

\* get_frame raising when grab fails
get_frame_raisesOnDrop(conn, cp, stream) ==
    IF ~conn THEN "none"
    ELSE IF cp = "opened" /\ stream = "up" THEN "frame"
    ELSE "raise"

\* OptimizedStreamReader.get_frame(): "none" without a read when not connected,
\* "frame" when grab and retrieve succeed, "drop" when they do not.  grab() on a
\* handle that is not opened returns False; on None it raises.
get_frame(conn, cp, stream) ==
    IF ~conn THEN "none"
    ELSE IF cp = "None" THEN "raise"
    ELSE IF cp = "opened" /\ stream = "up" THEN "frame"
    ELSE "drop"

\* Prune that removes nothing
Prune_keepsNone(d) == d

\* payload["vitals"] = {k: v for k, v in payload["vitals"].items() if v is not None}
Prune(d) == [k \in {j \in DOMAIN d : ~d[j].isNone} |-> d[k]]

\* send_vitals putting the simulation's base value where a kind is missing
send_vitals_fillsMissing(vitals, t) ==
    [k \in Kinds |->
       IF ~Truthy(Get(vitals, k))
       THEN Some(IF k = "hr" THEN 14000 ELSE IF k = "spo2" THEN 9600
                 ELSE IF k = "rr" THEN 4500 ELSE 3680)
       ELSE IF k = "temp" THEN Some(t)
       ELSE Some(PyInt(vitals[k]))]

\* payload["vitals"] of send_vitals(vitals, ...): hr, spo2, rr through int(),
\* temp through round(., 1) (t is the rounded temp), None for a falsy value,
\* then the None values removed.
send_vitals(vitals, t) ==
    Prune([k \in Kinds |->
             IF ~Truthy(Get(vitals, k)) THEN None
             ELSE IF k = "temp" THEN Some(t)
             ELSE Some(PyInt(vitals[k]))])

\* every payload["vitals"] send_vitals can build from vitals
Payloads(vitals) ==
    {send_vitals(vitals, t) :
        t \in IF "temp" \in DOMAIN vitals THEN Round1(vitals["temp"]) ELSE {0}}

\* send_vitals posting a second time when the first POST fails
post_retry(postOK) ==
    [posts |-> IF postOK THEN 1 ELSE 2,
     result |-> IF postOK THEN "ok" ELSE "error",
     raised |-> FALSE]

\* The try block that ends send_vitals: one requests.post; its reply, parsed,
\* is the result; any exception becomes the result {"error": ...}.  The reply
\* is taken to be a JSON object.
post(postOK) ==
    [posts |-> 1,
     result |-> IF postOK THEN "ok" ELSE "error",
     raised |-> FALSE]

\* The outcome of a tick that calls no send_vitals
NoPost == [posts |-> 0, result |-> "-", raised |-> FALSE]

----------------------------------------------------------------------------
(* Smoothing *)

window_size == 5

\* VitalSmoother.__init__
NewHistory == [k \in Kinds |-> <<>>]

\* the lower middle: sorted(h)[(len(h) - 1) // 2]
MiddleOfSorted_lower(h) == sorted(h)[((Len(h) - 1) \div 2) + 1]

\* sorted(h)[len(h) // 2]
MiddleOfSorted(h) == sorted(h)[(Len(h) \div 2) + 1]

\* smooth taking the median from 2 buffered values on
smooth_fromTwo(h, vitals) ==
    LET nh == [k \in DOMAIN h |->
                 IF k \in DOMAIN vitals
                 THEN DequeAppend(h[k], vitals[k], window_size) ELSE h[k]]
    IN  [history |-> nh,
         smoothed |-> [k \in DOMAIN vitals |->
                         IF Len(nh[k]) >= 2 THEN MiddleOfSorted(nh[k])
                         ELSE vitals[k]]]

\* VitalSmoother.smooth(vitals) on self.history = h
smooth(h, vitals) ==
    LET nh == [k \in DOMAIN h |->
                 IF k \in DOMAIN vitals
                 THEN DequeAppend(h[k], vitals[k], window_size) ELSE h[k]]
    IN  [history |-> nh,
         smoothed |-> [k \in DOMAIN vitals |->
                         IF Len(nh[k]) >= 3 THEN MiddleOfSorted(nh[k])
                         ELSE vitals[k]]]

----------------------------------------------------------------------------
(* camera-to-dashboard-ocr.py *)

OCR_VALID_RANGES ==
    [hr |-> <<8000, 20000>>, spo2 |-> <<8500, 10000>>,
     rr |-> <<2000, 8000>>, temp |-> <<3500, 3900>>]

SMOOTHING_WINDOW == 5

\* extract_vitals_from_text(text): every kept kind scores 0.85
extract_vitals_from_text(cands) ==
    LET vitals == MatchKinds(cands, OCR_VALID_RANGES)
    IN  [vitals |-> vitals, confidence_scores |-> [k \in DOMAIN vitals |-> 340]]

\* extract_vitals_ocr(frame)
extract_vitals_ocr(text) ==
    IF text.raises
    THEN [vitals |-> EmptyDict, confidence_scores |-> EmptyDict, raised |-> FALSE]
    ELSE [vitals |-> extract_vitals_from_text(text.cands).vitals,
          confidence_scores |-> extract_vitals_from_text(text.cands).confidence_scores,
          raised |-> FALSE]

\* the lower of the two middle values for a buffer of even length
MidOfSorted_lower(h) == LET values == sorted(h) IN values[((Len(values) - 1) \div 2) + 1]

\* values[mid] with mid = len(values) // 2
MidOfSorted(h) == LET values == sorted(h) IN values[(Len(values) \div 2) + 1]

\* apply_smoothing appending every value to the buffers of all kinds
apply_smoothing_sharedBuffer(h, new_vitals) ==
    LET nh == [k \in DOMAIN h |->
                 IF new_vitals = EmptyDict THEN h[k]
                 ELSE DequeAppend(h[k],
                                  new_vitals[CHOOSE j \in DOMAIN new_vitals : TRUE],
                                  SMOOTHING_WINDOW)]
    IN  [history |-> nh,
         smoothed |-> [k \in DOMAIN new_vitals |->
                         IF Len(nh[k]) >= 3 THEN MidOfSorted(nh[k])
                         ELSE new_vitals[k]]]

\* apply_smoothing(new_vitals) on the global vital_history = h
apply_smoothing(h, new_vitals) ==
    LET nh == [k \in DOMAIN h |->
                 IF k \in DOMAIN new_vitals
                 THEN DequeAppend(h[k], new_vitals[k], SMOOTHING_WINDOW) ELSE h[k]]
    IN  [history |-> nh,
         smoothed |-> [k \in DOMAIN new_vitals |->
                         IF Len(nh[k]) >= 3 THEN MidOfSorted(nh[k])
                         ELSE new_vitals[k]]]

\* generate_simulation_vitals() of camera-to-dashboard-ocr.py
ocr_generate_simulation_vitals(d, t) ==
    [hr |-> 14000 + d.hr * 100,
     spo2 |-> Min(10000, Max(8800, 9600 + d.spo2 * 100)),
     rr |-> 4500 + d.rr * 100,
     temp |-> t]

\* A simulated reading with the draw u of random.uniform(0, 0.10) that
\* follows it
OcrSimReadings ==
    UNION {{[vitals |-> ocr_generate_simulation_vitals(d, t), u |-> d.u] :
              t \in Round1(3680 + d.temp)} : d \in SimDraws}

\* payload["vitals"] of camera-to-dashboard-ocr.py's send_vitals
ocr_send_vitals(vitals, t) ==
    Prune([k \in Kinds |->
             IF ~Truthy(Get(vitals, k)) THEN None
             ELSE IF k = "temp" THEN Some(t)
             ELSE Some(PyInt(vitals[k]))])

OcrPayloads(vitals) ==
    {ocr_send_vitals(vitals, t) :
        t \in IF "temp" \in DOMAIN vitals THEN Round1(vitals["temp"]) ELSE {0}}

----------------------------------------------------------------------------
(* The smoother harness: raw readings go through range validation           *)
(* (extract_vitals / extract_vitals_from_text) and then through both        *)
(* smoothers, each starting from empty buffers.                             *)

HrSamples == {14800, 15000, 15100, 15200, 30000}

\* One raw reading: a heart-rate sample alone, or one of two of them (one
\* accepted, one rejected) with an SpO2 value
FeedReadings ==
    {[raises |-> FALSE,
      cands |-> [hr |-> <<x>>, spo2 |-> <<>>, rr |-> <<>>, temp |-> <<>>]] :
        x \in HrSamples}
    \cup
    {[raises |-> FALSE,
      cands |-> [hr |-> <<x>>, spo2 |-> <<9600>>, rr |-> <<>>, temp |-> <<>>]] :
        x \in {15000, 30000}}

\* The cameras of the central processor's configuration, and their patients
Cameras == {"cam1", "cam2"}

PatientOf == [cam1 |-> 1, cam2 |-> 2]

\* CameraStreamProcessor.__init__ for every camera.  pc and cap are the
\* position and the local capture handle of self.thread, the thread of the
\* latest start(); old counts the threads of earlier start() calls that are
\* still inside _process_loop; starts counts the start() calls that launched
\* a thread; stop tells whether a stop() call is waiting in
\* join ("joining") or has returned with no start() since ("returned"); late
\* records a _publish_reading call made after stop() returned ("stopped") or
\* after the MQTT client was disconnected ("disconnected").
NewProcessors ==
    [c \in Cameras |->
       [running |-> FALSE, pc |-> "idle", cap |-> "None", reconnect_attempts |-> 0,
        old |-> 0, starts |-> 0, stop |-> "no", late |-> "no"]]

\* The observer's record of a loop iteration, before any iteration ran
NoTick ==
    [mode |-> "-", posted |-> FALSE, vitals |-> EmptyDict, conf |-> 0,
     extracted |-> {}, raw |-> EmptyDict, read |-> "none", stream |-> "-",
     connectCalled |-> FALSE, elapsed |-> FALSE,
     exRaised |-> FALSE, exVitals |-> EmptyDict, exConf |-> 0,
     posts |-> 0, postOK |-> FALSE, result |-> "-"]

InitSmoother ==
    /\ variant = "harness"
    /\ pc = "feed"
    /\ connected = FALSE
    /\ cap = "None"
    /\ reconnect_attempts = 0
    /\ frames = FALSE
    /\ running = FALSE
    /\ history = NewHistory
    /\ vital_history = NewHistory
    /\ smoothed = EmptyDict
    /\ smoothed_ocr = EmptyDict
    /\ pushed = EmptyDict
    /\ fed = <<>>
    /\ ticks = 0
    /\ failures = 0
    /\ failed_connects = 0
    /\ dropped = {}
    /\ processors = NewProcessors
    /\ base_values = {}
    /\ published = {}
    /\ ocr_values = [k \in Kinds |-> {}]
    /\ last = NoTick

Feed ==
    /\ pc = "feed"
    /\ ticks < MaxFeeds
    /\ \E text \in FeedReadings :
         LET v == extract_vitals(text).vitals
             w == extract_vitals_ocr(text).vitals
             s == smooth(history, v)
             a == apply_smoothing(vital_history, w)
         IN  /\ history' = s.history
             /\ smoothed' = s.smoothed
             /\ vital_history' = a.history
             /\ smoothed_ocr' = a.smoothed
             /\ pushed' = v
             /\ fed' = Append(fed, text.cands.hr[1])
    /\ ticks' = ticks + 1
    /\ UNCHANGED <<variant, ocr_values, processors, base_values, published, failed_connects, dropped, pc, connected, cap, reconnect_attempts, frames,
                   running, failures, last>>

NextSmoother == Feed

SpecSmoother == InitSmoother /\ [][NextSmoother]_vars

----------------------------------------------------------------------------
(* The sampling loops.  One run executes one of the scripts.                *)

Variants == {"prod", "ocr", "vlm", "mock", "central"}

\* What OCR makes of a frame: per kind, the numbers its patterns capture
OcrTexts ==
    {[raises |-> FALSE,
      cands |-> [hr |-> <<15000>>, spo2 |-> <<9600>>, rr |-> <<4500>>, temp |-> <<3680>>]],
     [raises |-> FALSE,
      cands |-> [hr |-> <<20100>>, spo2 |-> <<10000>>, rr |-> <<1900>>, temp |-> <<3500>>]],
     [raises |-> FALSE,
      cands |-> [hr |-> <<30000, 8000>>, spo2 |-> <<8400>>, rr |-> <<>>, temp |-> <<3910>>]],
     [raises |-> FALSE,
      cands |-> [hr |-> <<>>, spo2 |-> <<>>, rr |-> <<>>, temp |-> <<>>]],
     [raises |-> TRUE,
      cands |-> [hr |-> <<>>, spo2 |-> <<>>, rr |-> <<>>, temp |-> <<>>]]}

NoText == [raises |-> FALSE,
           cands |-> [hr |-> <<>>, spo2 |-> <<>>, rr |-> <<>>, temp |-> <<>>]]

\* The stream at the moment a frame is read
Streams == {"up", "down"}

\* A simulated reading with the draw u of random.uniform(0, 0.10) that
\* follows it
SimReadings ==
    UNION {{[vitals |-> v, u |-> d.u] : v \in SimVitals(d)} : d \in SimDraws}

NoSim == [vitals |-> EmptyDict, u |-> 0]

Init ==
    /\ variant \in Variants
    /\ pc = "startup"
    /\ connected = FALSE
    /\ cap = "None"
    /\ reconnect_attempts = 0
    /\ frames = FALSE
    /\ running = FALSE
    /\ history = NewHistory
    /\ vital_history = NewHistory
    /\ smoothed = EmptyDict
    /\ smoothed_ocr = EmptyDict
    /\ pushed = EmptyDict
    /\ fed = <<>>
    /\ ticks = 0
    /\ failures = 0
    /\ failed_connects = 0
    /\ dropped = {}
    /\ processors = NewProcessors
    /\ base_values = {}
    /\ published = {}
    /\ ocr_values = [k \in Kinds |-> {}]
    /\ last = NoTick

(* camera-connector-production.py: main() *)

\* if len(ocr_vitals) >= 2
Quorum(ocr_vitals) == Cardinality(DOMAIN ocr_vitals) >= 2

\* the fallback test with "and" for "or": if vitals and len(vitals) < 2
NeedsSimulation_and(vitals) == vitals # EmptyDict /\ Cardinality(DOMAIN vitals) < 2

\* if not vitals or len(vitals) < 2
NeedsSimulation(vitals) == vitals = EmptyDict \/ Cardinality(DOMAIN vitals) < 2

\* the timeout comparison turned round
ShouldReconnect_inverted(fr, elapsed) == fr = "drop" /\ ~elapsed

\* elif time.time() - stream.last_frame_time > 5, under "frame is None";
\* elapsed is the comparison's value
ShouldReconnect(fr, elapsed) == fr = "drop" /\ elapsed

\* the extracted values pushed whether or not they make a quorum
SmoothIfQuorum_always(h, ocr_vitals) == smooth(h, ocr_vitals)

\* if len(ocr_vitals) >= 2: vitals = smoother.smooth(ocr_vitals); vitals stays
\* {} otherwise and the buffers are not touched
SmoothIfQuorum(h, ocr_vitals) ==
    IF Quorum(ocr_vitals) THEN smooth(h, ocr_vitals)
    ELSE [history |-> h, smoothed |-> EmptyDict]

\* The handle states let go so far, with one more
Drop(d, old) == IF old = "None" THEN d ELSE d \cup {old}

\* The values extract_vitals has returned so far, with those of one more call
Extracted(seen, ocr_vitals) ==
    [k \in Kinds |->
       IF k \in DOMAIN ocr_vitals THEN seen[k] \cup {ocr_vitals[k]} ELSE seen[k]]

\* One pass of the startup loop: while reconnect_attempts < MAX_RECONNECT_ATTEMPTS
ProdStartup ==
    /\ variant = "prod"
    /\ pc = "startup"
    /\ reconnect_attempts < MAX_RECONNECT_ATTEMPTS
    /\ \E openOK \in BOOLEAN :
         LET c == connect(connected, cap, openOK)
         IN  /\ cap' = c.cap
             /\ connected' = c.connected
             /\ dropped' = Drop(dropped, c.old)
             /\ failed_connects' = IF c.ok THEN 0 ELSE failed_connects + 1
             /\ reconnect_attempts' = IF c.ok THEN reconnect_attempts
                                                ELSE reconnect_attempts + 1
             /\ pc' = IF c.ok \/ reconnect_attempts + 1 >= MAX_RECONNECT_ATTEMPTS
                         THEN "loop" ELSE "startup"
    /\ UNCHANGED <<variant, ocr_values, processors, base_values, published, frames, running, history, vital_history, smoothed,
                   smoothed_ocr, pushed, fed, ticks, failures, last>>

\* One pass of the while True loop.  A run that never read a frame is followed
\* for MaxDeadTicks passes, any other for MaxTicks.
ProdTick ==
    /\ variant = "prod"
    /\ pc = "loop"
    /\ ticks < MaxTicks \/ (~frames /\ ticks < MaxDeadTicks)
    /\ \E stream \in IF connected THEN Streams ELSE {"-"} :
         LET fr == get_frame(connected, cap, stream)
         IN  \E text \in IF fr = "frame" THEN OcrTexts ELSE {NoText},
                \* last_frame_time is 0 until a frame was read
                elapsed \in IF fr = "drop" /\ frames THEN BOOLEAN ELSE {TRUE},
                postOK \in BOOLEAN :
             LET ocr == IF fr = "frame" THEN extract_vitals(text)
                        ELSE [vitals |-> EmptyDict, conf |-> 0, raised |-> FALSE]
                 s1 == IF fr = "frame" THEN SmoothIfQuorum(history, ocr.vitals)
                       ELSE [history |-> history, smoothed |-> EmptyDict]
                 stale == ShouldReconnect(fr, elapsed)
                 fallback == NeedsSimulation(s1.smoothed)
                 sent == post(postOK)
             IN  IF fr = "raise" \/ ocr.raised \/ sent.raised
                 THEN /\ pc' = "crashed"
                      /\ UNCHANGED <<connected, cap, frames, history, smoothed,
                                     pushed, ticks, failures, failed_connects,
                                     dropped, ocr_values, last>>
                 ELSE \E openOK \in IF stale THEN BOOLEAN ELSE {FALSE},
                         sim \in IF fallback THEN SimReadings ELSE {NoSim} :
                      LET c == IF stale THEN connect(connected, cap, openOK)
                               ELSE [cap |-> cap, connected |-> connected,
                                     ok |-> FALSE, old |-> "None"]
                          s2 == IF fallback THEN smooth(s1.history, sim.vitals) ELSE s1
                          confidence == IF fallback THEN 348 + sim.u ELSE ocr.conf
                          mode == IF fallback THEN "SIM" ELSE "OCR"
                      IN  \E payload \in Payloads(s2.smoothed) :
                            /\ pc' = "loop"
                            /\ cap' = c.cap
                            /\ connected' = c.connected
                            /\ dropped' = Drop(dropped, c.old)
                            /\ failed_connects' =
                                  IF ~stale THEN failed_connects
                                  ELSE IF c.ok THEN 0 ELSE failed_connects + 1
                            /\ frames' = (frames \/ fr = "frame")
                            /\ history' = s2.history
                            /\ smoothed' = s2.smoothed
                            /\ pushed' = IF fallback THEN sim.vitals ELSE ocr.vitals
                            /\ ocr_values' = Extracted(ocr_values, ocr.vitals)
                            /\ ticks' = ticks + 1
                            /\ failures' = IF fr = "frame" THEN 0 ELSE failures + 1
                            /\ last' = [mode |-> mode, posted |-> sent.posts > 0,
                                        vitals |-> payload, conf |-> confidence,
                                        extracted |-> DOMAIN ocr.vitals,
                                        raw |-> text.cands,
                                        read |-> fr, stream |-> stream,
                                        connectCalled |-> stale,
                                        elapsed |-> (fr = "drop" /\ elapsed),
                                        exRaised |-> (fr = "frame" /\ text.raises),
                                        exVitals |-> ocr.vitals,
                                        exConf |-> ocr.conf,
                                        posts |-> sent.posts, postOK |-> postOK,
                                        result |-> sent.result]
    /\ UNCHANGED <<variant, processors, base_values, published, reconnect_attempts, running, vital_history,
                   smoothed_ocr, fed>>

\* KeyboardInterrupt in the loop: the except clause prints the stream stats
\* (stats['frames'] is a KeyError while no frame was ever read), then finally
\* releases the stream.
ProdInterrupt ==
    /\ variant = "prod"
    /\ pc = "loop"
    /\ pc' = IF connected /\ ~frames THEN "exit_error" ELSE "exited"
    /\ cap' = release(cap)
    /\ connected' = FALSE
    /\ UNCHANGED <<variant, ocr_values, processors, base_values, published, failed_connects, dropped, reconnect_attempts, frames,
                   running, history, vital_history, smoothed, smoothed_ocr,
                   pushed, fed, ticks, failures, last>>

(* camera-to-dashboard-ocr.py: main() *)

\* cap = cv2.VideoCapture(RTSP_URL); stream_connected = cap.isOpened()
OcrStartup ==
    /\ variant = "ocr"
    /\ pc = "startup"
    /\ \E openOK \in BOOLEAN :
         /\ cap' = IF openOK THEN "opened" ELSE "unopened"
         /\ connected' = openOK
         /\ failed_connects' = IF openOK THEN 0 ELSE 1
    /\ pc' = "loop"
    /\ UNCHANGED <<variant, ocr_values, processors, base_values, published, dropped, reconnect_attempts, frames, running, history,
                   vital_history, smoothed, smoothed_ocr, pushed, fed, ticks,
                   failures, last>>

\* if len(ocr_vitals) >= 2
OcrQuorum(ocr_vitals) == Cardinality(DOMAIN ocr_vitals) >= 2

\* ret, frame = cap.read() after five cap.grab()
cap_read(conn, cp, stream) ==
    IF ~conn THEN "none"
    ELSE IF cp = "opened" /\ stream = "up" THEN "frame"
    ELSE "drop"

\* sum(ocr_conf.values()) / len(ocr_conf) if ocr_conf else 0.85
MeanConfidence(ocr_conf) ==
    IF DOMAIN ocr_conf = {} THEN 340
    ELSE SumValues(ocr_conf, DOMAIN ocr_conf) \div Cardinality(DOMAIN ocr_conf)

\* the fallback test that never asks for a simulated reading
OcrNeedsSimulation_never(vitals) == FALSE

\* if not vitals or len(vitals) < 2
OcrNeedsSimulation(vitals) == vitals = EmptyDict \/ Cardinality(DOMAIN vitals) < 2

\* if len(ocr_vitals) >= 2: vitals = apply_smoothing(ocr_vitals)
ApplyIfQuorum(h, ocr_vitals) ==
    IF OcrQuorum(ocr_vitals) THEN apply_smoothing(h, ocr_vitals)
    ELSE [history |-> h, smoothed |-> EmptyDict]

\* One pass of the while True loop
OcrTick ==
    /\ variant = "ocr"
    /\ pc = "loop"
    /\ ticks < MaxTicks
    /\ \E stream \in IF connected THEN Streams ELSE {"-"} :
         LET fr == cap_read(connected, cap, stream)
         IN  \E text \in IF fr = "frame" THEN OcrTexts ELSE {NoText},
                postOK \in BOOLEAN :
             LET ocr == IF fr = "frame" THEN extract_vitals_ocr(text)
                        ELSE [vitals |-> EmptyDict, confidence_scores |-> EmptyDict,
                              raised |-> FALSE]
                 useOcr == fr = "frame" /\ OcrQuorum(ocr.vitals)
                 s1 == IF fr = "frame" THEN ApplyIfQuorum(vital_history, ocr.vitals)
                       ELSE [history |-> vital_history, smoothed |-> EmptyDict]
                 fallback == OcrNeedsSimulation(s1.smoothed)
                 sent == post(postOK)
             IN  IF ocr.raised \/ sent.raised
                 THEN /\ pc' = "crashed"
                      /\ UNCHANGED <<vital_history, smoothed_ocr, pushed, ticks,
                                     failures, last>>
                 ELSE \E sim \in IF fallback THEN OcrSimReadings ELSE {NoSim} :
                      LET vitals == IF fallback THEN sim.vitals ELSE s1.smoothed
                          confidence == IF fallback THEN 344 + sim.u
                                        ELSE MeanConfidence(ocr.confidence_scores)
                          mode == IF fallback THEN "SIM" ELSE "OCR"
                      IN  \E payload \in OcrPayloads(vitals) :
                            /\ pc' = "loop"
                            /\ vital_history' = s1.history
                            /\ smoothed_ocr' = s1.smoothed
                            /\ pushed' = IF useOcr THEN ocr.vitals ELSE pushed
                            /\ ticks' = ticks + 1
                            /\ failures' = IF fr = "frame" THEN 0 ELSE failures + 1
                            /\ last' = [mode |-> mode, posted |-> sent.posts > 0,
                                        vitals |-> payload, conf |-> confidence,
                                        extracted |-> DOMAIN ocr.vitals,
                                        raw |-> text.cands,
                                        read |-> fr, stream |-> stream,
                                        connectCalled |-> FALSE, elapsed |-> FALSE,
                                        exRaised |-> (fr = "frame" /\ text.raises),
                                        exVitals |-> ocr.vitals,
                                        exConf |-> SumValues(ocr.confidence_scores,
                                                     DOMAIN ocr.confidence_scores),
                                        posts |-> sent.posts, postOK |-> postOK,
                                        result |-> sent.result]
    /\ UNCHANGED <<variant, ocr_values, processors, base_values, published, failed_connects, dropped, connected, cap,
                   reconnect_attempts, frames, running, history, smoothed, fed>>

\* KeyboardInterrupt in the loop; finally: if stream_connected: cap.release()
OcrInterrupt ==
    /\ variant = "ocr"
    /\ pc = "loop"
    /\ pc' = "exited"
    /\ cap' = IF connected THEN "released" ELSE cap
    /\ UNCHANGED <<variant, ocr_values, processors, base_values, published, failed_connects, dropped, connected, reconnect_attempts, frames, running,
                   history, vital_history, smoothed, smoothed_ocr, pushed, fed,
                   ticks, failures, last>>

(* vlm-vitals-extractor.py *)

VlmKeys == {"hr", "spo2", "rr", "temp", "bp_sys", "bp_dia"}

VLM_VALID_RANGES ==
    [hr |-> <<6000, 22000>>, spo2 |-> <<7000, 10000>>, rr |-> <<1500, 10000>>,
     temp |-> <<3400, 4000>>, bp_sys |-> <<4000, 12000>>, bp_dia |-> <<2000, 8000>>]

\* What the model answered: kind "json" (a JSON object was found and parsed;
\* data holds its numeric fields, a null or non-numeric field counts as absent),
\* "text" (json.loads raised JSONDecodeError; data holds what the fallback
\* patterns capture), "raise" (the query or the parsing raised otherwise).
VlmResponses ==
    {[kind |-> "json",
      data |-> [hr |-> 6050, spo2 |-> 9749, rr |-> 10000, temp |-> 3995,
                bp_sys |-> 8000, bp_dia |-> 5000]],
     [kind |-> "json", data |-> [hr |-> 21990]],
     [kind |-> "json",
      data |-> [hr |-> 22010, spo2 |-> 6990, rr |-> 1500, temp |-> 3404]],
     [kind |-> "json", data |-> [bp_sys |-> 9000]],
     [kind |-> "json", data |-> EmptyDict],
     [kind |-> "text", data |-> [hr |-> 15000, temp |-> 4010, bp_sys |-> 9000]],
     [kind |-> "raise", data |-> EmptyDict]}

\* parse_vitals_response(response_text)
parse_vitals_response(resp) ==
    LET keys == IF resp.kind = "json" THEN VlmKeys ELSE Kinds
    IN  [k \in VlmKeys |->
           IF k \in keys /\ k \in DOMAIN resp.data
                /\ InRange(resp.data[k], VLM_VALID_RANGES[k])
           THEN Some(resp.data[k]) ELSE None]

\* extract_vitals_vlm without the min(0.95, .) cap
extract_vitals_vlm_uncapped(resp) ==
    IF resp.kind = "raise" THEN [vitals |-> EmptyDict, conf |-> 0, raised |-> FALSE]
    ELSE LET vitals == parse_vitals_response(resp)
             valid_count == Cardinality({k \in VlmKeys : ~vitals[k].isNone})
         IN  [vitals |-> vitals, conf |-> 200 + valid_count * 40, raised |-> FALSE]

\* extract_vitals_vlm(frame): confidence = min(0.95, 0.5 + valid_count * 0.1)
extract_vitals_vlm(resp) ==
    IF resp.kind = "raise" THEN [vitals |-> EmptyDict, conf |-> 0, raised |-> FALSE]
    ELSE LET vitals == parse_vitals_response(resp)
             valid_count == Cardinality({k \in VlmKeys : ~vitals[k].isNone})
         IN  [vitals |-> vitals, conf |-> Min(380, 200 + valid_count * 40),
              raised |-> FALSE]

\* payload["vitals"] of vlm-vitals-extractor.py's send_vitals
vlm_send_vitals(vitals, t) ==
    Prune([k \in Kinds |->
             IF ~Truthy(vitals[k]) THEN None
             ELSE IF k = "temp" THEN Some(t)
             ELSE Some(PyInt(vitals[k].val))])

VlmPayloads(vitals) ==
    {vlm_send_vitals(vitals, t) :
        t \in IF ~vitals["temp"].isNone THEN Round1(vitals["temp"].val) ELSE {0}}

\* StreamCapture.connect(): a new handle is made; the result is isOpened()
vlm_connect(openOK) ==
    [cap |-> IF openOK THEN "opened" ELSE "unopened", ok |-> openOK]

\* StreamCapture.get_frame(): None unless the handle exists, is opened and
\* read() succeeds
StreamCapture_get_frame(cp, stream) ==
    IF cp # "opened" THEN "drop"
    ELSE IF stream = "up" THEN "frame"
    ELSE "drop"

\* frame = None; if stream_connected: frame = stream.get_frame()
vlm_get_frame(conn, cp, stream) ==
    IF ~conn THEN "none" ELSE StreamCapture_get_frame(cp, stream)

\* StreamCapture.release(): "if self.cap: self.cap.release()"
vlm_release(cp) == IF cp = "None" THEN "None" ELSE "released"

\* The ollama test query, then stream = StreamCapture(RTSP_URL); stream.connect()
VlmStartup ==
    /\ variant = "vlm"
    /\ pc = "startup"
    /\ \E vlmReady \in BOOLEAN, openOK \in BOOLEAN :
         IF ~vlmReady
         THEN /\ pc' = "exited"
              /\ UNCHANGED <<cap, connected, failed_connects>>
         ELSE /\ pc' = "loop"
              /\ cap' = vlm_connect(openOK).cap
              /\ connected' = vlm_connect(openOK).ok
              /\ failed_connects' = IF openOK THEN 0 ELSE 1
    /\ UNCHANGED <<variant, ocr_values, processors, base_values, published, dropped, reconnect_attempts, frames, running, history,
                   vital_history, smoothed, smoothed_ocr, pushed, fed, ticks,
                   failures, last>>

\* One pass of the while True loop
VlmTick ==
    /\ variant = "vlm"
    /\ pc = "loop"
    /\ ticks < MaxTicks
    /\ \E stream \in IF connected THEN Streams ELSE {"-"} :
         LET fr == vlm_get_frame(connected, cap, stream)
         IN  \E resp \in IF fr = "frame" THEN VlmResponses
                        ELSE {[kind |-> "raise", data |-> EmptyDict]} :
             LET vlm == extract_vitals_vlm(resp)
                 got == {k \in DOMAIN vlm.vitals : ~vlm.vitals[k].isNone}
                 \* any(v is not None for v in vitals.values())
                 send == fr = "frame" /\ got # {}
             IN  IF fr = "frame" /\ vlm.raised
                 THEN /\ pc' = "crashed"
                      /\ UNCHANGED <<ticks, failures, last>>
                 ELSE \E payload \in IF send THEN VlmPayloads(vlm.vitals)
                                             ELSE {EmptyDict} :
                      \* "Don't send if no vitals extracted"
                      LET posting == send /\ DOMAIN payload # {}
                      IN  \E postOK \in IF posting THEN BOOLEAN ELSE {FALSE} :
                          LET sent == IF posting THEN post(postOK) ELSE NoPost
                          IN  /\ pc' = IF sent.raised THEN "crashed" ELSE "loop"
                              /\ ticks' = ticks + 1
                              /\ failures' = IF fr = "frame" THEN 0 ELSE failures + 1
                              /\ last' = [mode |-> IF send THEN "VLM" ELSE "-",
                                          posted |-> sent.posts > 0,
                                          vitals |-> payload,
                                          conf |-> IF fr = "frame" THEN vlm.conf ELSE 0,
                                          extracted |-> got, raw |-> resp.data,
                                          read |-> fr, stream |-> stream,
                                          connectCalled |-> FALSE, elapsed |-> FALSE,
                                          exRaised |-> (fr = "frame" /\ resp.kind = "raise"),
                                          exVitals |-> IF fr = "frame" THEN vlm.vitals
                                                       ELSE EmptyDict,
                                          exConf |-> IF fr = "frame" THEN vlm.conf ELSE 0,
                                          posts |-> sent.posts, postOK |-> postOK,
                                          result |-> IF send /\ ~posting THEN "error"
                                                     ELSE sent.result]
    /\ UNCHANGED <<variant, ocr_values, processors, base_values, published, failed_connects, dropped, connected, cap,
                   reconnect_attempts, frames, running, history, vital_history,
                   smoothed, smoothed_ocr, pushed, fed>>

\* KeyboardInterrupt in the loop; finally: stream.release()
VlmInterrupt ==
    /\ variant = "vlm"
    /\ pc = "loop"
    /\ pc' = "exited"
    /\ cap' = vlm_release(cap)
    /\ UNCHANGED <<variant, ocr_values, processors, base_values, published, failed_connects, dropped, connected, reconnect_attempts, frames, running,
                   history, vital_history, smoothed, smoothed_ocr, pushed, fed,
                   ticks, failures, last>>

(* camera-to-dashboard.py *)

\* The random draws of generate_mock_vitals, all lowest and all highest:
\* randint(-10,10), randint(-3,2), randint(-5,5), uniform(-0.3,0.3), and the
\* uniform(0, 0.12) of the confidence
MockDraws ==
    {[hr |-> -10, spo2 |-> -3, rr |-> -5, temp |-> -30, u |-> 0],
     [hr |-> 10, spo2 |-> 2, rr |-> 5, temp |-> 30, u |-> 48]}

\* generate_mock_vitals()
generate_mock_vitals(d, t) ==
    [hr |-> 14000 + d.hr * 100,
     spo2 |-> Min(10000, Max(8800, 9600 + d.spo2 * 100)),
     rr |-> 4500 + d.rr * 100,
     temp |-> t]

\* payload["vitals"] of camera-to-dashboard.py's send_vitals: vitals as given
mock_send_vitals(vitals) == [k \in DOMAIN vitals |-> Some(vitals[k])]

MockStartup ==
    /\ variant = "mock"
    /\ pc = "startup"
    /\ \E openOK \in BOOLEAN :
         /\ cap' = IF openOK THEN "opened" ELSE "unopened"
         /\ connected' = openOK
         /\ failed_connects' = IF openOK THEN 0 ELSE 1
    /\ pc' = "loop"
    /\ UNCHANGED <<variant, ocr_values, processors, base_values, published, dropped, reconnect_attempts, frames, running, history,
                   vital_history, smoothed, smoothed_ocr, pushed, fed, ticks,
                   failures, last>>

MockTick ==
    /\ variant = "mock"
    /\ pc = "loop"
    /\ ticks < MaxTicks
    /\ \E stream \in IF connected THEN Streams ELSE {"-"}, d \in MockDraws,
          postOK \in BOOLEAN :
         LET fr == cap_read(connected, cap, stream)
             sent == post(postOK)
         IN  \E t \in Round1(3680 + d.temp) :
               /\ frames' = (frames \/ fr = "frame")
               /\ failures' = IF fr = "frame" THEN 0 ELSE failures + 1
               /\ last' = [NoTick EXCEPT
                             !.mode = "SIM", !.posted = sent.posts > 0,
                             !.vitals = mock_send_vitals(generate_mock_vitals(d, t)),
                             !.conf = 340 + d.u, !.read = fr, !.stream = stream,
                             !.posts = sent.posts, !.postOK = postOK,
                             !.result = sent.result]
    /\ ticks' = ticks + 1
    /\ UNCHANGED <<variant, ocr_values, processors, base_values, published, failed_connects, dropped, pc, connected, cap, reconnect_attempts, running,
                   history, vital_history, smoothed, smoothed_ocr, pushed, fed>>

\* KeyboardInterrupt in the loop; finally: if stream_connected: cap.release()
MockInterrupt ==
    /\ variant = "mock"
    /\ pc = "loop"
    /\ pc' = "exited"
    /\ cap' = IF connected THEN "released" ELSE cap
    /\ UNCHANGED <<variant, ocr_values, processors, base_values, published, failed_connects, dropped, connected, reconnect_attempts, frames, running,
                   history, vital_history, smoothed, smoothed_ocr, pushed, fed,
                   ticks, failures, last>>

(* central-ocr-processor.py: one CameraStreamProcessor *)

max_reconnect_attempts == 5

\* What the injected ocr_extractor returns for a frame: the screen-detection
\* confidence and the four per-vital confidences, in hundredths.  The first
\* is MockOCRExtractor's; the others stand for an extractor with real models.
ExtractorResults ==
    {[screen_conf |-> 95, hr_conf |-> 92, spo2_conf |-> 94, rr_conf |-> 88, temp_conf |-> 90],
     [screen_conf |-> 80, hr_conf |-> 92, spo2_conf |-> 94, rr_conf |-> 88, temp_conf |-> 90],
     [screen_conf |-> 100, hr_conf |-> 100, spo2_conf |-> 100, rr_conf |-> 100, temp_conf |-> 100],
     [screen_conf |-> 85, hr_conf |-> 80, spo2_conf |-> 90, rr_conf |-> 85, temp_conf |-> 80]}

\* the mean confidence that leaves the temperature out
overall_conf_noTemp(r) == ((r.hr_conf + r.spo2_conf + r.rr_conf) * 4) \div 3

\* (hr_conf + spo2_conf + rr_conf + temp_conf) / 4, with 400 standing for 1.0
overall_conf(r) == r.hr_conf + r.spo2_conf + r.rr_conf + r.temp_conf

\* MockOCRExtractor.extract_vitals at its base values
MockVitals == [hr |-> 14000, spo2 |-> 9500, rr |-> 4200, temp |-> 3680]

\* the give-up test one attempt late
MaxAttemptsReached_late(attempts) == attempts > max_reconnect_attempts

\* the give-up test that never fires
MaxAttemptsReached_never(attempts) == FALSE

\* if self.reconnect_attempts >= self.max_reconnect_attempts: return
MaxAttemptsReached(attempts) == attempts >= max_reconnect_attempts

\* CameraStreamProcessor.start()
CentralStart ==
    /\ variant = "central"
    /\ pc = "startup"
    /\ ~running
    /\ running' = TRUE
    /\ pc' = "loop"
    /\ UNCHANGED <<variant, ocr_values, processors, base_values, published, failed_connects, dropped, connected, cap,
                   reconnect_attempts, frames, history, vital_history, smoothed,
                   smoothed_ocr, pushed, fed, ticks, failures, last>>

\* One pass of "while self.running" in _process_loop.  step tells how far the
\* pass gets: the stream does not open, the read fails, something inside the
\* try raises after the read, or the frame is processed.  The observer's record
\* keeps the confidences of a processed frame in raw and marks a failed open
\* with stream "down".
CentralPass ==
    /\ variant = "central"
    /\ pc = "loop"
    /\ running
    /\ ticks < MaxIters
    /\ ticks' = ticks + 1
    /\ \E openOK \in BOOLEAN, readOK \in BOOLEAN, raises \in BOOLEAN,
          r \in ExtractorResults :
         IF cap = "None" /\ ~openOK
         THEN \* cap.isOpened() is false
              /\ reconnect_attempts' = reconnect_attempts + 1
              /\ failed_connects' = failed_connects + 1
              /\ IF MaxAttemptsReached(reconnect_attempts + 1)
                 THEN \* return, the handle neither released nor cleared
                      pc' = "stopped" /\ cap' = "unopened" /\ dropped' = dropped
                 ELSE \* cap = None
                      pc' = "loop" /\ cap' = "None"
                      /\ dropped' = Drop(dropped, "unopened")
              /\ failures' = failures + 1
              /\ last' = [NoTick EXCEPT !.read = "drop", !.stream = "down",
                                        !.connectCalled = TRUE]
              /\ UNCHANGED frames
         ELSE /\ reconnect_attempts' = IF cap = "None" THEN 0 ELSE reconnect_attempts
              /\ failed_connects' = IF cap = "None" THEN 0 ELSE failed_connects
              /\ pc' = "loop"
              /\ IF ~readOK
                 THEN \* cap.release(); cap = None
                      /\ cap' = "None"
                      /\ dropped' = Drop(dropped, "released")
                      /\ failures' = failures + 1
                      /\ last' = [NoTick EXCEPT !.read = "drop",
                                                !.connectCalled = (cap = "None")]
                      /\ UNCHANGED frames
                 ELSE IF raises
                 THEN \* except Exception: cap.release(); cap = None
                      /\ cap' = "None"
                      /\ dropped' = Drop(dropped, "released")
                      /\ failures' = 0
                      /\ last' = [NoTick EXCEPT !.read = "frame",
                                                !.connectCalled = (cap = "None")]
                      /\ frames' = TRUE
                 ELSE /\ cap' = "opened"
                      /\ dropped' = dropped
                      /\ failures' = 0
                      /\ frames' = TRUE
                      /\ last' =
                           IF r.screen_conf * 4 < 340 \/ overall_conf(r) < 340
                           THEN [NoTick EXCEPT !.read = "frame", !.raw = r,
                                               !.connectCalled = (cap = "None")]
                           ELSE [NoTick EXCEPT
                                   !.mode = "OCR", !.posted = TRUE, !.raw = r,
                                   !.vitals = [k \in Kinds |-> Some(MockVitals[k])],
                                   !.conf = overall_conf(r), !.extracted = Kinds,
                                   !.read = "frame", !.stream = "up",
                                   !.connectCalled = (cap = "None")]
    /\ UNCHANGED <<variant, ocr_values, processors, base_values, published, connected, running, history, vital_history, smoothed,
                   smoothed_ocr, pushed, fed>>

\* CameraStreamProcessor.stop(): self.running = False
CentralStop ==
    /\ variant = "central"
    /\ pc = "loop"
    /\ running
    /\ running' = FALSE
    /\ UNCHANGED <<variant, ocr_values, processors, base_values, published, failed_connects, dropped, pc, connected, cap, reconnect_attempts, frames,
                   history, vital_history, smoothed, smoothed_ocr, pushed, fed,
                   ticks, failures, last>>

\* The loop condition fails: "if cap: cap.release()" and the thread ends
CentralExit ==
    /\ variant = "central"
    /\ pc = "loop"
    /\ ~running
    /\ pc' = "stopped"
    /\ cap' = IF cap = "None" THEN "None" ELSE "released"
    /\ UNCHANGED <<variant, ocr_values, processors, base_values, published, failed_connects, dropped, connected, reconnect_attempts, frames, running,
                   history, vital_history, smoothed, smoothed_ocr, pushed, fed,
                   ticks, failures, last>>

(* central-ocr-processor.py: CentralOCRProcessor with its camera threads.    *)
(* A thread's pass is cut where it reads or writes what all threads share:   *)
(* the extractor's base_values and the MQTT client.                          *)

scriptVars == <<variant, pc, connected, cap, reconnect_attempts, frames, running,
                history, vital_history, smoothed, smoothed_ocr, pushed, fed,
                ticks, failures, failed_connects, dropped, ocr_values, last>>

InitCentral ==
    /\ variant = "central"
    /\ pc = "threads"
    /\ connected = FALSE
    /\ cap = "None"
    /\ reconnect_attempts = 0
    /\ frames = FALSE
    /\ running = FALSE
    /\ history = NewHistory
    /\ vital_history = NewHistory
    /\ smoothed = EmptyDict
    /\ smoothed_ocr = EmptyDict
    /\ pushed = EmptyDict
    /\ fed = <<>>
    /\ ticks = 0
    /\ failures = 0
    /\ failed_connects = 0
    /\ dropped = {}
    /\ processors = NewProcessors
    /\ base_values = {}
    /\ published = {}
    /\ ocr_values = [k \in Kinds |-> {}]
    /\ last = NoTick

\* reconnect_attempts kept in one place for all processors
SetAttempts_classAttr(ps, c, n) ==
    [d \in DOMAIN ps |-> [ps[d] EXCEPT !.reconnect_attempts = n]]

\* self.reconnect_attempts = n, an attribute of the processor of camera c
SetAttempts(ps, c, n) == [ps EXCEPT ![c].reconnect_attempts = n]

\* The main thread is between calls: no stop() is waiting in join, and the
\* MQTT client has not been disconnected
MainFree == pc = "threads" /\ \A d \in Cameras : processors[d].stop # "joining"

\* self.thread is inside _process_loop
Alive(p) == p.pc \notin {"idle", "done"}

\* CameraStreamProcessor.start(): returns at once if self.running; otherwise
\* sets running and puts a new thread in self.thread.  A thread of an earlier
\* start() that is still alive is no longer referred to by the processor.
ProcStart(c) ==
    LET p == processors[c]
    IN  /\ MainFree
        /\ ~p.running
        /\ p.starts < MaxStarts
        /\ Alive(p) => p.old < MaxOldThreads
        /\ processors' = [processors EXCEPT
                            ![c].running = TRUE, ![c].pc = "loop",
                            ![c].cap = "None", ![c].stop = "no",
                            ![c].starts = p.starts + 1,
                            ![c].old = IF Alive(p) THEN p.old + 1 ELSE p.old]
        /\ UNCHANGED <<base_values, published>>
        /\ UNCHANGED scriptVars

\* A pass of _process_loop up to the call of ocr_extractor.extract_vitals
ProcPass(c) ==
    LET p == processors[c]
    IN  /\ p.pc = "loop"
        /\ p.running
        /\ \E openOK \in BOOLEAN, readOK \in BOOLEAN, raises \in BOOLEAN,
              r \in ExtractorResults :
             IF p.cap = "None" /\ ~openOK
             THEN processors' =
                     SetAttempts(
                        IF MaxAttemptsReached(p.reconnect_attempts + 1)
                        THEN [processors EXCEPT ![c].pc = "done", ![c].cap = "unopened"]
                        ELSE [processors EXCEPT ![c].cap = "None"],
                        c, p.reconnect_attempts + 1)
             ELSE processors' =
                     SetAttempts(
                        IF ~readOK \/ raises
                        THEN [processors EXCEPT ![c].cap = "None"]
                        ELSE IF r.screen_conf * 4 < 340
                        THEN [processors EXCEPT ![c].cap = "opened"]
                        ELSE [processors EXCEPT ![c].cap = "opened",
                                                ![c].pc = "check_base"],
                        c, IF p.cap = "None" THEN 0 ELSE p.reconnect_attempts)
        /\ UNCHANGED <<base_values, published>>
        /\ UNCHANGED scriptVars

\* MockOCRExtractor.extract_vitals: if patient_id not in self.base_values
ProcCheckBase(c) ==
    /\ processors[c].pc = "check_base"
    /\ processors' = [processors EXCEPT ![c].pc =
                        IF PatientOf[c] \in base_values THEN "use_base"
                        ELSE "init_base"]
    /\ UNCHANGED <<base_values, published>>
    /\ UNCHANGED scriptVars

\* MockOCRExtractor.extract_vitals: self.base_values[patient_id] = {...}
ProcInitBase(c) ==
    /\ processors[c].pc = "init_base"
    /\ base_values' = base_values \cup {PatientOf[c]}
    /\ processors' = [processors EXCEPT ![c].pc = "use_base"]
    /\ UNCHANGED published
    /\ UNCHANGED scriptVars

\* What a _publish_reading call of the processor p adds to its record of late
\* calls
PublishedLate(p) ==
    IF p.late # "no" THEN p.late
    ELSE IF pc = "disconnected" THEN "disconnected"
    ELSE IF p.stop = "returned" THEN "stopped"
    ELSE "no"

\* MockOCRExtractor.extract_vitals: base = self.base_values[patient_id], and
\* the rest of the pass: the confidence test and _publish_reading
ProcUseBase(c) ==
    /\ processors[c].pc = "use_base"
    /\ \E r \in ExtractorResults :
         IF PatientOf[c] \notin base_values
         THEN \* KeyError, caught by the loop's except clause
              /\ processors' = [processors EXCEPT ![c].pc = "loop", ![c].cap = "None"]
              /\ UNCHANGED published
         ELSE IF overall_conf(r) < 340
         THEN /\ processors' = [processors EXCEPT ![c].pc = "loop"]
              /\ UNCHANGED published
         ELSE /\ processors' = [processors EXCEPT
                                  ![c].pc = "loop",
                                  ![c].late = PublishedLate(processors[c])]
              /\ published' = published \cup {c}
    /\ UNCHANGED base_values
    /\ UNCHANGED scriptVars

\* CameraStreamProcessor.stop(), up to the join: self.running = False
ProcStop(c) ==
    /\ MainFree
    /\ processors[c].stop # "returned"
    /\ processors' = [processors EXCEPT ![c].running = FALSE, ![c].stop = "joining"]
    /\ UNCHANGED <<base_values, published>>
    /\ UNCHANGED scriptVars

\* CameraStreamProcessor.stop() returns: there is no thread, or
\* self.thread.join(timeout=5) returns, the thread having ended or the five
\* seconds having passed.  The pass of a live thread holds cv2.VideoCapture(url),
\* cap.read() and sleeps of up to five seconds, so it can outlast the join
\* wherever it stands.
ProcJoin(c) ==
    /\ pc = "threads"
    /\ processors[c].stop = "joining"
    /\ processors' = [processors EXCEPT ![c].stop = "returned"]
    /\ UNCHANGED <<base_values, published>>
    /\ UNCHANGED scriptVars

\* A thread of an earlier start() finds self.running false at the top of its
\* loop and ends; while running is true it goes on with its passes, which
\* are not followed here
ProcOldExit(c) ==
    /\ processors[c].old > 0
    /\ ~processors[c].running
    /\ processors' = [processors EXCEPT ![c].old = processors[c].old - 1]
    /\ UNCHANGED <<base_values, published>>
    /\ UNCHANGED scriptVars

\* CentralOCRProcessor.stop() after its processor.stop() calls have returned:
\* self.mqtt_client.loop_stop(); self.mqtt_client.disconnect()
CentralDisconnect ==
    /\ MainFree
    /\ \A c \in Cameras : processors[c].stop = "returned"
    /\ pc' = "disconnected"
    /\ UNCHANGED <<variant, connected, cap, reconnect_attempts, frames, running,
                   history, vital_history, smoothed, smoothed_ocr, pushed, fed,
                   ticks, failures, failed_connects, dropped, processors,
                   base_values, published, ocr_values, last>>

\* The loop condition fails: "if cap: cap.release()" and the thread ends
ProcExit(c) ==
    /\ processors[c].pc = "loop"
    /\ ~processors[c].running
    /\ processors' = [processors EXCEPT
                        ![c].pc = "done",
                        ![c].cap = IF processors[c].cap = "None" THEN "None"
                                   ELSE "released"]
    /\ UNCHANGED <<base_values, published>>
    /\ UNCHANGED scriptVars

NextCentral ==
    \/ CentralDisconnect
    \/ \E c \in Cameras :
          \/ ProcStart(c)
          \/ ProcPass(c)
          \/ ProcCheckBase(c)
          \/ ProcInitBase(c)
          \/ ProcUseBase(c)
          \/ ProcStop(c)
          \/ ProcJoin(c)
          \/ ProcExit(c)
          \/ ProcOldExit(c)

SpecCentral == InitCentral /\ [][NextCentral]_vars

Next ==
    \/ ProdStartup
    \/ ProdTick
    \/ ProdInterrupt
    \/ OcrStartup
    \/ OcrTick
    \/ OcrInterrupt
    \/ VlmStartup
    \/ VlmTick
    \/ VlmInterrupt
    \/ MockStartup
    \/ MockTick
    \/ MockInterrupt
    \/ CentralStart
    \/ CentralPass
    \/ CentralStop
    \/ CentralExit

Spec == Init /\ [][Next]_vars

----------------------------------------------------------------------------
(* Properties *)

Ticked == ticks > 0

\* The valid ranges of the script that runs
RangesOfVariant ==
    IF variant = "vlm" THEN VLM_VALID_RANGES
    ELSE IF variant = "ocr" THEN OCR_VALID_RANGES ELSE VALID_RANGES

\* The numbers the last frame offered for kind k
Offered(k) ==
    IF variant = "vlm"
    THEN (IF k \in DOMAIN last.raw THEN {last.raw[k]} ELSE {})
    ELSE (IF k \in DOMAIN last.raw THEN Range(last.raw[k]) ELSE {})

Within(v, k) == RangesOfVariant[k][1] <= v /\ v <= RangesOfVariant[k][2]

\* C1: in camera-connector-production, camera-to-dashboard-ocr and
\* vlm-vitals-extractor every vital value of a submitted payload lies within
\* the inclusive valid range of its kind, and a kind for which the frame
\* offered only out-of-range numbers is absent from a payload built from that
\* frame (discarded: neither clamped nor forwarded).
C1_SubmittedValuesInRange ==
    (variant \in {"prod", "ocr", "vlm"} /\ last.posted) =>
        /\ \A k \in DOMAIN last.vitals :
              ~last.vitals[k].isNone => Within(last.vitals[k].val, k)
        /\ last.mode \in {"OCR", "VLM"} =>
              \A k \in Kinds :
                 (\A v \in Offered(k) : ~Within(v, k)) => k \notin DOMAIN last.vitals

\* C1 witness: an OCR-mode payload from a frame whose heart rate (201) was out
\* of range: no hr key, and SpO2 at the inclusive upper end of its range.
C1_Witness ==
    /\ variant = "prod" /\ last.posted /\ last.mode = "OCR"
    /\ last.raw["hr"] = <<20100>>
    /\ "hr" \notin DOMAIN last.vitals
    /\ "spo2" \in DOMAIN last.vitals /\ last.vitals["spo2"].val = 10000

\* C2 as claimed: in every variant a reading with fewer than 2 extracted
\* vitals, when posted, is posted as a simulated reading.
C2_Original ==
    (Ticked /\ Cardinality(last.extracted) < 2 /\ last.posted) => last.mode = "SIM"

\* C2 amended: in camera-connector-production and camera-to-dashboard-ocr a
\* reading with fewer than 2 extracted vitals is replaced by a complete
\* simulated reading, posted with mode SIM; vlm-vitals-extractor never
\* substitutes a simulated reading and posts exactly the readings that hold at
\* least one of hr, spo2, rr, temp.
C2_QuorumOrSimulated ==
    /\ (variant \in {"prod", "ocr"} /\ Ticked /\ Cardinality(last.extracted) < 2) =>
          (last.posted /\ last.mode = "SIM" /\ DOMAIN last.vitals = Kinds)
    /\ (variant \in {"prod", "ocr"} /\ Ticked /\ last.mode = "OCR") =>
          Cardinality(last.extracted) >= 2
    /\ (variant = "vlm" /\ Ticked) =>
          (last.mode # "SIM" /\ (last.posted <=> last.extracted \cap Kinds # {}))

\* C2 witness: a frame that gave only a heart rate, posted as simulated.
C2_Witness ==
    /\ variant = "prod" /\ last.read = "frame" /\ last.extracted = {"hr"}
    /\ last.posted /\ last.mode = "SIM"

\* The middle element of buf in sorted order, stated by rank: m is in buf, at
\* most len // 2 elements are below it and more than len // 2 are not above it.
IsMiddle(m, buf) ==
    /\ m \in Range(buf)
    /\ Cardinality({i \in DOMAIN buf : buf[i] < m}) <= Len(buf) \div 2
    /\ Cardinality({i \in DOMAIN buf : buf[i] <= m}) > Len(buf) \div 2

\* C3: whenever the buffer of a kind holds 3, 4 or 5 values after a push, the
\* smoothed output of that kind is the middle element of the buffer in sorted
\* order (element len // 2, the upper of the two middle ones for 4 values), for
\* VitalSmoother.smooth and for apply_smoothing.
C3_MedianOnceThree ==
    /\ \A k \in DOMAIN smoothed :
          Len(history[k]) >= 3 => IsMiddle(smoothed[k], history[k])
    /\ \A k \in DOMAIN smoothed_ocr :
          Len(vital_history[k]) >= 3 => IsMiddle(smoothed_ocr[k], vital_history[k])

\* C3 witness: a heart-rate buffer of 4 distinct values whose output is neither
\* the value just pushed nor the lower middle.
C3_Witness ==
    /\ "hr" \in DOMAIN smoothed
    /\ history["hr"] = <<15200, 15100, 15000, 14800>>
    /\ smoothed["hr"] = 15100
    /\ smoothed_ocr["hr"] = 15100

\* C4: whenever the buffer of a kind holds fewer than 3 values after a push,
\* the smoothed output of that kind is the value just pushed.
C4_IdentityBelowThree ==
    /\ \A k \in DOMAIN smoothed :
          Len(history[k]) < 3 =>
             smoothed[k] = pushed[k] /\ smoothed[k] = history[k][Len(history[k])]
    /\ \A k \in DOMAIN smoothed_ocr :
          Len(vital_history[k]) < 3 =>
             smoothed_ocr[k] = pushed[k]
             /\ smoothed_ocr[k] = vital_history[k][Len(vital_history[k])]

\* C4 witness: the second push of heart rate, smaller than the first, comes
\* back unchanged.
C4_Witness ==
    /\ "hr" \in DOMAIN smoothed
    /\ history["hr"] = <<15200, 14800>>
    /\ smoothed["hr"] = 14800
    /\ smoothed_ocr["hr"] = 14800

\* C5: the vitals object of every posted body holds no key with a null value,
\* in every script that posts to the ingestion endpoint.
C5_NoNullInPayload ==
    (variant # "central" /\ last.posted) =>
        \A k \in DOMAIN last.vitals : ~last.vitals[k].isNone

\* C5 witness: a posted OCR reading that lacks hr and rr: the two keys are
\* absent from the body.
C5_Witness ==
    /\ variant = "prod" /\ last.posted /\ last.mode = "OCR"
    /\ last.extracted = {"spo2", "temp"}
    /\ DOMAIN last.vitals = {"spo2", "temp"}

\* C6: the confidence of every submitted or published reading lies in [0, 1]
\* (0..400 with 400 standing for 1.0), in every script.
C6_ConfidenceInUnitInterval ==
    Ticked => (0 <= last.conf /\ last.conf <= 400)

\* C6 witness: a VLM reading with all six fields valid, whose count-based
\* confidence 0.5 + 6 * 0.1 is cut to 0.95.
C6_Witness ==
    /\ variant = "vlm" /\ last.posted
    /\ Cardinality(last.extracted) = 6
    /\ last.conf = 380

\* C7: in camera-connector-production, at every tick at which the stream is
\* not up when the frame would be read (down, or the reader not connected),
\* the reading submitted at that tick has mode SIM.
C7_SimWhenDisconnected ==
    (variant = "prod" /\ Ticked /\ (last.stream # "up" \/ last.read # "frame")) =>
        (last.posted /\ last.mode = "SIM")

\* C7 witness: the third consecutive tick with the stream down, after frames
\* had been read.
C7_Witness ==
    /\ variant = "prod" /\ frames /\ failures >= 3
    /\ last.stream = "down" /\ last.posted /\ last.mode = "SIM"

Scenario == <<15000, 15200, 30000, 14800, 15100>>

\* C10: feeding 150, 152, 300, 148, 151 through range validation and the
\* smoother never puts 300 into the heart-rate buffer, and after the last
\* sample the buffer holds the 4 accepted values and the smoothed heart rate
\* lies within [148, 152].
C10_Scenario ==
    /\ (\E n \in 1..Len(Scenario) : fed = SubSeq(Scenario, 1, n)) =>
          (30000 \notin Range(history["hr"]) /\ 30000 \notin Range(vital_history["hr"]))
    /\ fed = Scenario =>
          /\ history["hr"] = <<15000, 15200, 14800, 15100>>
          /\ vital_history["hr"] = <<15000, 15200, 14800, 15100>>
          /\ 14800 <= smoothed["hr"] /\ smoothed["hr"] <= 15200
          /\ 14800 <= smoothed_ocr["hr"] /\ smoothed_ocr["hr"] <= 15200

\* C10 witness: the whole scenario fed, the output settled at 151.
C10_Witness ==
    /\ fed = Scenario
    /\ smoothed["hr"] = 15100

C12_SinglePostNoRetry ==
    (variant \in {"prod", "ocr", "vlm", "mock"} /\ Ticked) =>
        /\ last.posts <= 1
        /\ last.posted <=> last.posts = 1
        /\ (last.posted /\ ~last.postOK) => last.result = "error"
        /\ pc # "crashed"
        /\ variant = "prod" => last.vitals \in Payloads(smoothed)
        /\ (variant = "ocr" /\ last.mode = "OCR") => last.vitals \in OcrPayloads(smoothed_ocr)

\* C12 witness: the second or a later tick of camera-connector-production,
\* whose POST failed.
C12_Witness ==
    /\ variant = "prod" /\ ticks >= 2 /\ pc = "loop"
    /\ last.posted /\ ~last.postOK /\ last.result = "error"

Exits == {"exited", "exit_error", "stopped", "crashed"}

\* C13 as claimed: every handle a loop has opened or created is released once
\* the loop has exited, and every handle let go before was released.
C13_Original ==
    /\ dropped \subseteq {"released"}
    /\ pc \in Exits => cap \in {"None", "released"}

\* C13 amended: every capture handle that was opened is released by the time
\* the loop has exited, and no opened handle is let go unreleased (a reconnect
\* releases the previous handle first); a handle that was created and did not
\* open is not always released.
C13_OpenedHandlesReleased ==
    /\ "opened" \notin dropped
    /\ pc \in Exits => cap # "opened"

\* C13 witness: camera-connector-production interrupted after frames were read
\* and a reconnect replaced the handle.
C13_Witness ==
    /\ variant = "prod" /\ pc = "exited" /\ frames
    /\ cap = "released" /\ "released" \in dropped

\* C14 as claimed: every tick submits a reading.
C14_Original ==
    (variant \in {"prod", "ocr", "vlm"} /\ Ticked) => last.posted

\* C14 amended: every tick of camera-connector-production and of
\* camera-to-dashboard-ocr submits exactly one reading, simulated when fewer
\* than 2 vitals were extracted; a tick of vlm-vitals-extractor submits a
\* reading only when a frame was read and at least one of hr, spo2, rr, temp
\* was extracted, and nothing otherwise.
C14_SubmitsOrSimulates ==
    /\ (variant \in {"prod", "ocr"} /\ Ticked) =>
          /\ last.posts = 1
          /\ Cardinality(DOMAIN last.vitals) >= 2
          /\ last.mode = "SIM" <=> Cardinality(last.extracted) < 2
    /\ (variant = "vlm" /\ Ticked) =>
          /\ last.posted <=> (last.read = "frame" /\ last.extracted \cap Kinds # {})
          /\ last.read # "frame" => (last.posts = 0 /\ last.vitals = EmptyDict)

\* C14 witness: a frame in which OCR found nothing (without an error), answered
\* by a simulated reading.
C14_Witness ==
    /\ variant = "ocr" /\ last.read = "frame" /\ ~last.exRaised
    /\ last.extracted = {} /\ last.posted /\ last.mode = "SIM"

HrAccepted(x) == 8000 <= x /\ x <= 20000

\* the last n elements of s
LastN(s, n) == IF Len(s) <= n THEN s ELSE SubSeq(s, Len(s) - n + 1, Len(s))

\* C16: the buffer of a kind never holds more than 5 values, and the heart-rate
\* buffer holds exactly the most recent min(n, 5) accepted heart rates in
\* arrival order, in VitalSmoother and in vital_history.
C16_BufferHoldsLastFive ==
    /\ \A k \in Kinds : Len(history[k]) <= 5 /\ Len(vital_history[k]) <= 5
    /\ history["hr"] = LastN(SelectSeq(fed, HrAccepted), 5)
    /\ vital_history["hr"] = LastN(SelectSeq(fed, HrAccepted), 5)

\* C16 witness: six accepted heart rates; the first one, different from the
\* second, is gone.
C16_Witness ==
    /\ Len(fed) = 6 /\ 30000 \notin Range(fed) /\ fed[1] # fed[2]
    /\ Len(history["hr"]) = 5 /\ history["hr"][1] = fed[2]

\* C17: a smoothing call leaves the buffer of every kind absent from its input
\* unchanged, returns a value for exactly the kinds of its input, and the value
\* of a kind is decided by that kind's buffer alone (its middle element from 3
\* values on, its last element before).
C17_KindsIndependent ==
    [][(ticks' = ticks + 1) =>
          /\ \A k \in Kinds \ DOMAIN pushed' :
                history'[k] = history[k] /\ vital_history'[k] = vital_history[k]
          /\ DOMAIN smoothed' = DOMAIN pushed'
          /\ DOMAIN smoothed_ocr' = DOMAIN pushed'
          /\ \A k \in DOMAIN pushed' :
                /\ IF Len(history'[k]) >= 3
                   THEN IsMiddle(smoothed'[k], history'[k])
                   ELSE smoothed'[k] = history'[k][Len(history'[k])]
                /\ IF Len(vital_history'[k]) >= 3
                   THEN IsMiddle(smoothed_ocr'[k], vital_history'[k])
                   ELSE smoothed_ocr'[k] = vital_history'[k][Len(vital_history'[k])]]_vars

\* C17 witness: a reading with SpO2 and no accepted heart rate, smoothed while
\* the heart-rate buffer held 3 values.
C17_Witness ==
    /\ DOMAIN pushed = {"spo2"} /\ DOMAIN smoothed = {"spo2"}
    /\ Len(history["hr"]) = 3 /\ Len(vital_history["hr"]) = 3
    /\ fed[Len(fed)] = 30000

\* C19: get_frame on a source whose stream is disconnected (never connected,
\* lost, or not re-opened by the last connect) returns no frame and does not
\* raise, and a connect() that opens the stream makes get_frame return frames
\* again, for OptimizedStreamReader and for StreamCapture.
C19_NoFrameNoRaise ==
    /\ pc # "crashed"
    /\ variant = "prod" =>
          /\ get_frame(connected, cap, "down") \in {"none", "drop"}
          /\ (~connected \/ cap # "opened") =>
                get_frame(connected, cap, "up") \in {"none", "drop"}
          /\ LET c == connect(connected, cap, TRUE)
             IN  get_frame(c.connected, c.cap, "up") = "frame"
    /\ variant = "vlm" =>
          /\ StreamCapture_get_frame(cap, "down") = "drop"
          /\ cap # "opened" => StreamCapture_get_frame(cap, "up") = "drop"
          /\ StreamCapture_get_frame(vlm_connect(TRUE).cap, "up") = "frame"
    /\ (variant \in {"prod", "vlm"} /\ Ticked /\ last.stream # "up") =>
          last.read \in {"none", "drop"}

\* C19 witness: camera-connector-production had read frames, lost the stream,
\* failed to re-open it, and the next get_frame returned no frame.
C19_Witness ==
    /\ variant = "prod" /\ frames /\ connected /\ cap = "unopened"
    /\ failures >= 2 /\ last.read = "drop" /\ pc = "loop"

\* The smoothing buffers of the script that runs
Buffers == IF variant = "ocr" THEN vital_history ELSE history

\* C20 as claimed: the values extracted from a frame are in the smoothing
\* buffers whatever the quorum decision.
C20_Original ==
    (variant \in {"prod", "ocr"} /\ Ticked /\ last.read = "frame") =>
        \A k \in DOMAIN last.exVitals : last.exVitals[k] \in Range(Buffers[k])

\* C20 amended: the quorum decision (at least 2 extracted vitals) is taken
\* before smoothing.  With a quorum the extracted values are pushed and the
\* reading is submitted as OCR; without one no extracted value is pushed: the
\* buffers of camera-to-dashboard-ocr stay as they were and those of
\* camera-connector-production take the simulated reading.
C20_QuorumBeforeSmoothing ==
    [][(variant \in {"prod", "ocr"} /\ ticks' = ticks + 1) =>
          LET ex == last'.exVitals
          IN  IF Cardinality(DOMAIN ex) >= 2
              THEN /\ last'.mode = "OCR"
                   /\ \A k \in DOMAIN ex :
                         Buffers'[k] = LastN(Append(Buffers[k], ex[k]), 5)
                   /\ \A k \in Kinds \ DOMAIN ex : Buffers'[k] = Buffers[k]
              ELSE /\ last'.mode = "SIM"
                   /\ variant = "ocr" => vital_history' = vital_history
                   /\ variant = "prod" =>
                         /\ DOMAIN pushed' = Kinds
                         /\ pushed' # ex
                         /\ \A k \in Kinds :
                               history'[k] = LastN(Append(history[k], pushed'[k]), 5)]_vars

\* C20 witness: camera-to-dashboard-ocr, a frame with a heart rate of 80 and no
\* other vital, after a heart rate had been buffered: 80 is not in the buffer.
C20_Witness ==
    /\ variant = "ocr" /\ last.read = "frame" /\ last.extracted = {"hr"}
    /\ last.exVitals["hr"] = 8000 /\ last.mode = "SIM"
    /\ vital_history["hr"] # <<>> /\ 8000 \notin Range(vital_history["hr"])

\* The positions at which a thread is about to read or write base_values
InExtractor == {"check_base", "init_base", "use_base"}

\* C18 as claimed: one process runs one sampling loop, and no thread is about
\* to write an object that another thread is about to read or write.
C18_Original ==
    /\ Cardinality({c \in Cameras : processors[c].pc \notin {"idle", "done"}}) <= 1
    /\ \A c, d \in Cameras :
          (c # d /\ processors[c].pc = "init_base") => processors[d].pc \notin InExtractor

\* C18 amended: a camera thread of central-ocr-processor writes no field of
\* another camera's processor (capture handle, reconnect counter, position),
\* and what the threads share is the extractor's base_values, which only grows
\* and always holds the entry a thread is about to read, and the MQTT client.
C18_SharedOnlyExtractorAndClient ==
    /\ [][\E c \in Cameras :
            \A d \in Cameras \ {c} : processors'[d] = processors[d]]_vars
    /\ [][base_values \subseteq base_values' /\ published \subseteq published']_vars
    /\ [](\A c \in Cameras :
            processors[c].pc = "use_base" => PatientOf[c] \in base_values)

\* C18 witness: both camera threads inside extract_vitals of the one shared
\* extractor, one about to write base_values and the other about to test it.
C18_Witness ==
    /\ processors["cam1"].pc = "init_base"
    /\ processors["cam2"].pc = "check_base"
    /\ base_values = {PatientOf["cam2"]}
    /\ published = {"cam2"}

\* C21: in camera-connector-production, once all MAX_RECONNECT_ATTEMPTS startup
\* attempts have failed the fallback is permanent: the stream stays
\* disconnected, every pass of the loop reads no frame, calls connect() never
\* again and submits its reading with mode SIM, and no later step opens the
\* stream.
StartupExhausted ==
    variant = "prod" /\ pc # "startup" /\ reconnect_attempts = MAX_RECONNECT_ATTEMPTS

C21_PermanentSimFallback ==
    /\ [](StartupExhausted =>
            /\ ~connected
            /\ cap \in {"unopened", "released"}
            /\ failed_connects = MAX_RECONNECT_ATTEMPTS
            /\ ~frames
            /\ Ticked => /\ last.mode = "SIM"
                         /\ last.posted
                         /\ last.read = "none"
                         /\ ~last.connectCalled)
    /\ [][StartupExhausted =>
            /\ StartupExhausted'
            /\ cap' # "opened"
            /\ failed_connects' = failed_connects]_vars

C21_Witness ==
    /\ StartupExhausted
    /\ ticks >= 5
    /\ last.mode = "SIM"
    /\ last.posted
    /\ \A k \in Kinds : k \in DOMAIN last.vitals

\* C22: VitalSmoother.smooth (camera-connector-production) and apply_smoothing
\* (camera-to-dashboard-ocr), both started with empty buffers and given the
\* same readings one after the other, return the same smoothed reading at
\* every step and hold the same buffer contents after it.
C22_SmoothersAgree ==
    variant = "harness" =>
        /\ smoothed = smoothed_ocr
        /\ history = vital_history
        /\ DOMAIN smoothed = DOMAIN pushed

C22_Witness ==
    /\ variant = "harness"
    /\ Len(fed) = 5
    /\ Len(vital_history["hr"]) = 4
    /\ Len(vital_history["spo2"]) = 3
    /\ history = vital_history
    /\ "hr" \in DOMAIN pushed
    /\ "hr" \in DOMAIN smoothed_ocr
    /\ smoothed_ocr["hr"] # pushed["hr"]
    /\ smoothed = smoothed_ocr

\* C23: in central-ocr-processor a camera's loop stops itself because of
\* connection failure exactly when max_reconnect_attempts consecutive attempts
\* to open the stream have failed; reconnect_attempts stays within
\* 0..max_reconnect_attempts and counts the consecutive failed opens; a pass
\* that opens the stream sets it to 0, and a pass on a stream already open
\* (a failed read included) leaves it as it was.
SelfStopped == pc = "stopped" /\ cap = "unopened"

OpenedInPass == last'.connectCalled /\ last'.stream # "down"

C23_StopsAfterFiveFailedOpens ==
    /\ [](variant = "central" =>
            /\ reconnect_attempts \in 0..max_reconnect_attempts
            /\ reconnect_attempts = failed_connects
            /\ SelfStopped <=> reconnect_attempts = max_reconnect_attempts)
    /\ [][(variant = "central" /\ ticks' = ticks + 1) =>
            /\ OpenedInPass => reconnect_attempts' = 0
            /\ ~last'.connectCalled => reconnect_attempts' = reconnect_attempts
            /\ (last'.connectCalled /\ ~OpenedInPass) =>
                   reconnect_attempts' = reconnect_attempts + 1]_vars

C23_Witness ==
    /\ variant = "central"
    /\ failures >= 3
    /\ reconnect_attempts = 0
    /\ last.connectCalled
    /\ last.read = "drop"
    /\ last.stream # "down"

\* C30: in central-ocr-processor a reading is published only for a frame whose
\* screen-detection confidence and whose mean of the four per-vital
\* confidences are both at least 0.85 (340 of 400); a processed frame that
\* fails either threshold publishes nothing, and the confidence published is
\* that mean.
FrameProcessed == variant = "central" /\ Ticked /\ last.raw # EmptyDict

C30_PublishedAboveBothThresholds ==
    /\ (variant = "central" /\ last.posted) => FrameProcessed
    /\ FrameProcessed =>
          LET r == last.raw
              mean == r.hr_conf + r.spo2_conf + r.rr_conf + r.temp_conf
          IN  /\ last.posted <=> (r.screen_conf * 4 >= 340 /\ mean >= 340)
              /\ last.posted => last.conf = mean

C30_Witness ==
    /\ FrameProcessed
    /\ last.raw.screen_conf = 85
    /\ ~last.posted
    /\ frames
    /\ ticks >= 2

\* C24: in camera-connector-production and camera-to-dashboard-ocr a reading is
\* submitted with mode OCR exactly when, in that pass, the stream was
\* connected, a frame was read and at least two in-range vitals were
\* extracted from it; the payload of an OCR reading holds exactly the kinds
\* extracted in that pass, none added for a kind that is missing.
C24_OcrModeIffQuorumRead ==
    (variant \in {"prod", "ocr"} /\ Ticked) =>
        /\ last.posted
        /\ last.mode \in {"OCR", "SIM"}
        /\ last.mode = "OCR" <=>
              /\ last.stream = "up"
              /\ last.read = "frame"
              /\ Cardinality(last.extracted) >= 2
        /\ last.mode = "OCR" => DOMAIN last.vitals = last.extracted
        /\ last.read = "frame" => connected \/ pc = "exited"

C24_Witness ==
    /\ variant = "ocr"
    /\ ticks >= 2
    /\ last.mode = "OCR"
    /\ last.extracted = {"spo2", "temp"}
    /\ DOMAIN last.vitals = {"spo2", "temp"}

\* C25: in camera-connector-production every vital value of an OCR-mode reading
\* is a value OCR extracted in the current or an earlier pass (as send_vitals
\* writes it: int() for hr, spo2 and rr, round(., 1) for temp); a value from
\* generate_simulation_vitals never appears in an OCR-mode reading.
SubmittedForms(k, v) == IF k = "temp" THEN Round1(v) ELSE {PyInt(v)}

C25_Original ==
    (variant = "prod" /\ Ticked /\ last.mode = "OCR") =>
        \A k \in DOMAIN last.vitals :
           \E v \in ocr_values[k] : last.vitals[k].val \in SubmittedForms(k, v)

\* C26: in camera-connector-production OptimizedStreamReader.connected is true
\* only if the most recent connect() succeeded and release() was not called
\* since; after a connect() that failed, a failed reconnect in mid-run
\* included, connected is false.
C26_Original ==
    variant = "prod" =>
        /\ connected => (cap = "opened" /\ failed_connects = 0)
        /\ failed_connects > 0 => ~connected

\* The threads inside _process_loop for the processor p
LoopThreads(p) == p.old + (IF p.pc \in {"idle", "done"} THEN 0 ELSE 1)

\* C27: for any sequence of start() and stop() calls on a
\* CameraStreamProcessor, a start() after a stop() whose join timed out
\* included, at most one thread of that processor executes _process_loop at
\* any time.
C27_Original ==
    \A c \in Cameras : LoopThreads(processors[c]) <= 1

\* C28: once CameraStreamProcessor.stop() has returned, that processor makes
\* no further _publish_reading call (until it is started again), and after
\* CentralOCRProcessor.stop() has disconnected the MQTT client no camera
\* thread calls publish.
C28_Original ==
    \A c \in Cameras : processors[c].late = "no"

\* C29: CameraStreamProcessor.running is false whenever the processor's loop
\* has exited, so that a processor whose loop ended after
\* max_reconnect_attempts failed opens is not taken for running by start().
C29_Original ==
    \A c \in Cameras :
       LoopThreads(processors[c]) = 0 => ~processors[c].running

====
